---- MODULE Spec2Model ----
(***************************************************************************)
(* RecordManager (src/src/record/record_manager.py): a flat-file JSON-Lines *)
(* record store for Client, Airline and Flight records.  The in-memory list *)
(* self.records is mirrored to the backing file by SaveRecords after every  *)
(* mutation.                                                                *)
(*                                                                          *)
(* Python values are modelled as tagged values [t, n, s]: t is the Python   *)
(* type ("int", "str", "dt" for datetime, "none"), n the number of an int   *)
(* or the instant of a datetime, s the characters of a str.  A record is a  *)
(* dict: a function from field names to values.                             *)
(***************************************************************************)
EXTENDS Integers, Sequences, FiniteSets, TLC

\* Bounds of the model.
MaxRecords == 2
MaxFailures == 1
MaxLines == 2

-----------------------------------------------------------------------------
(* Values *)

NoneV == [t |-> "none", n |-> 0, s |-> <<>>]
IntV(n) == [t |-> "int", n |-> n, s |-> <<>>]
StrV(s) == [t |-> "str", n |-> 0, s |-> s]
DtV(n) == [t |-> "dt", n |-> n, s |-> <<>>]

ClientT == <<"C", "l", "i", "e", "n", "t">>
AirlineT == <<"A", "i", "r", "l", "i", "n", "e">>
FlightT == <<"F", "l", "i", "g", "h", "t">>

TxtA == <<"a">>
TxtB == <<"b">>

\* dict.get(key): the value, or None when the key is absent.
Get(record, key) == IF key \in DOMAIN record THEN record[key] ELSE NoneV

\* dict[key] = value: replaces the value or adds the key.
Put(record, key, value) ==
    [k \in DOMAIN record \cup {key} |-> IF k = key THEN value ELSE record[k]]

\* list.pop(i), 1-based.
Pop(recs, i) == SubSeq(recs, 1, i - 1) \o SubSeq(recs, i + 1, Len(recs))

-----------------------------------------------------------------------------
(* Conversions *)

DigitChars == <<"0", "1", "2", "3", "4", "5", "6", "7", "8", "9">>

IsDigit(c) == \E i \in 1..10 : DigitChars[i] = c

DigitVal(c) == (CHOOSE i \in 1..10 : DigitChars[i] = c) - 1

RECURSIVE ParseDigits(_)
ParseDigits(s) ==
    IF s = <<>> THEN 0
    ELSE 10 * ParseDigits(SubSeq(s, 1, Len(s) - 1)) + DigitVal(s[Len(s)])

\* int(value) succeeds: an int, or a str of decimal digits (the alphabet of
\* the model has no sign, blank or underscore characters in numeric texts).
CanInt(v) ==
    \/ v.t = "int"
    \/ v.t = "str" /\ v.s # <<>> /\ \A i \in DOMAIN v.s : IsDigit(v.s[i])

\* int(value), where CanInt(value).
IntOf(v) == IF v.t = "int" THEN v.n ELSE ParseDigits(v.s)

\* datetime.isoformat(): the instant n as the text "T<n>".
IsoFormat(n) == <<"T", DigitChars[n + 1]>>

\* datetime.fromisoformat(text) succeeds: date and time parts joined by "T"
\* or by another separator character (here a blank).
CanFromIso(s) == Len(s) = 2 /\ s[1] \in {"T", " "} /\ IsDigit(s[2])

\* datetime.fromisoformat(text), where CanFromIso(text).
FromIsoFormat(s) == DigitVal(s[2])

DeserializeRecordNoDate(record) ==
    IF Get(record, "Type") = StrV(FlightT) THEN
        LET r2 == IF "Client_ID" \in DOMAIN record /\ CanInt(record["Client_ID"])
                  THEN Put(record, "Client_ID", IntV(IntOf(record["Client_ID"])))
                  ELSE record
        IN IF "Airline_ID" \in DOMAIN r2 /\ CanInt(r2["Airline_ID"])
           THEN Put(r2, "Airline_ID", IntV(IntOf(r2["Airline_ID"])))
           ELSE r2
    ELSE IF Get(record, "Type") \in {StrV(ClientT), StrV(AirlineT)} THEN
        IF "ID" \in DOMAIN record /\ CanInt(record["ID"])
        THEN Put(record, "ID", IntV(IntOf(record["ID"])))
        ELSE record
    ELSE record

DeserializeRecordNoCoerce(record) ==
    IF Get(record, "Type") = StrV(FlightT) THEN
        LET date_val == Get(record, "Date")
        IN IF date_val.t = "str" /\ CanFromIso(date_val.s)
           THEN Put(record, "Date", DtV(FromIsoFormat(date_val.s)))
           ELSE record
    ELSE record

DeserializeRecord(record) ==
    IF Get(record, "Type") = StrV(FlightT) THEN
        LET date_val == Get(record, "Date")
            r1 == IF date_val.t = "str" /\ CanFromIso(date_val.s)
                  THEN Put(record, "Date", DtV(FromIsoFormat(date_val.s)))
                  ELSE record
            r2 == IF "Client_ID" \in DOMAIN r1 /\ CanInt(r1["Client_ID"])
                  THEN Put(r1, "Client_ID", IntV(IntOf(r1["Client_ID"])))
                  ELSE r1
        IN IF "Airline_ID" \in DOMAIN r2 /\ CanInt(r2["Airline_ID"])
           THEN Put(r2, "Airline_ID", IntV(IntOf(r2["Airline_ID"])))
           ELSE r2
    ELSE IF Get(record, "Type") \in {StrV(ClientT), StrV(AirlineT)} THEN
        IF "ID" \in DOMAIN record /\ CanInt(record["ID"])
        THEN Put(record, "ID", IntV(IntOf(record["ID"])))
        ELSE record
    ELSE record

UpperChars == <<"A", "B", "C", "D", "E", "F", "G", "H", "I", "J", "K", "L", "M",
                "N", "O", "P", "Q", "R", "S", "T", "U", "V", "W", "X", "Y", "Z">>
LowerChars == <<"a", "b", "c", "d", "e", "f", "g", "h", "i", "j", "k", "l", "m",
                "n", "o", "p", "q", "r", "s", "t", "u", "v", "w", "x", "y", "z">>

\* str.lower(), character by character: the lower-case letter of each
\* upper-case letter, any other character as it is.
LowerMap ==
    [c \in {UpperChars[i] : i \in 1..26} |->
        LowerChars[CHOOSE i \in 1..26 : UpperChars[i] = c]]

LowerChar(c) == IF c \in DOMAIN LowerMap THEN LowerMap[c] ELSE c

Lower(s) == [i \in DOMAIN s |-> LowerChar(s[i])]

\* sub in s, for two str.
Contains(sub, s) ==
    \E i \in 0..(Len(s) - Len(sub)) : SubSeq(s, i + 1, i + Len(sub)) = sub

\* str(n) for an int n >= 0: its decimal digits.
RECURSIVE Str(_)
Str(n) ==
    IF n < 10 THEN <<DigitChars[n + 1]>>
    ELSE Str(n \div 10) \o <<DigitChars[(n % 10) + 1]>>

SerializeRecord(record) ==
    IF Get(record, "Type") = StrV(FlightT) /\ Get(record, "Date").t = "dt"
    THEN Put(record, "Date", StrV(IsoFormat(record["Date"].n)))
    ELSE record

\* json.dumps accepts the dict: no datetime is left among its values.
JsonEncodable(record) == \A k \in DOMAIN record : record[k].t # "dt"

-----------------------------------------------------------------------------
(* The backing file: whether it exists, and its lines (one JSON object each) *)

AbsentFile == [exists |-> FALSE, lines |-> <<>>]

\* What a line of the file can be instead of a JSON object: ReadError, where
\* reading raises (the file cannot be opened or decoded, or the line is not
\* JSON), and NotAnObject, a JSON value without .get, on which
\* DeserializeRecord raises.
ReadError == [ReadError |-> NoneV]
NotAnObject == [NotAnObject |-> NoneV]

LineRaises(line) == line \in {ReadError, NotAnObject}

\* The body of the try in LoadRecords: the list it builds, and whether an
\* exception ends it before the list is assigned.
ReadAll(f) ==
    [raised |-> \E i \in DOMAIN f.lines : LineRaises(f.lines[i]),
     records |-> [i \in 1..Len(f.lines) |-> DeserializeRecord(f.lines[i])]]

LoadRecordsKeepPrefix(f) ==
    IF f.exists
    THEN LET bad == {i \in DOMAIN f.lines : LineRaises(f.lines[i])}
             n == IF bad = {} THEN Len(f.lines)
                  ELSE (CHOOSE i \in bad : \A j \in bad : i <= j) - 1
         IN [i \in 1..n |-> DeserializeRecord(f.lines[i])]
    ELSE <<>>

LoadRecordsSkipBad(f) ==
    IF f.exists
    THEN LET good == SelectSeq(f.lines, LAMBDA line : ~LineRaises(line))
         IN [i \in 1..Len(good) |-> DeserializeRecord(good[i])]
    ELSE <<>>

\* LoadRecords: the except clause leaves the empty list.
LoadRecords(f) ==
    IF f.exists
    THEN IF ReadAll(f).raised THEN <<>> ELSE ReadAll(f).records
    ELSE <<>>

\* How a call of SaveRecords ends: the write succeeds, or it fails before the
\* file is opened (the file is left as it was), or it fails after the file
\* was truncated and k lines were written.
OkOutcome == [kind |-> "ok", k |-> 0]

WriteOutcome(len) ==
    {OkOutcome, [kind |-> "open", k |-> 0]}
        \cup {[kind |-> "partial", k |-> k] : k \in 0..(len - 1)}

\* The number of lines jsonlines writes before json.dumps raises, if it does.
RECURSIVE EncodablePrefix(_)
EncodablePrefix(lines) ==
    IF lines = <<>> \/ ~JsonEncodable(Head(lines)) THEN 0
    ELSE 1 + EncodablePrefix(Tail(lines))

SaveRecordsAppend(recs, f, o) ==
    LET serializable_records == [i \in 1..Len(recs) |-> SerializeRecord(recs[i])]
    IN [ok |-> o.kind = "ok",
        file |-> IF o.kind = "ok"
                 THEN [exists |-> TRUE, lines |-> f.lines \o serializable_records]
                 ELSE f,
        records |-> recs]

SaveRecordsRollback(recs, f, o) ==
    LET serializable_records == [i \in 1..Len(recs) |-> SerializeRecord(recs[i])]
    IN [ok |-> o.kind = "ok",
        file |-> IF o.kind = "ok"
                 THEN [exists |-> TRUE, lines |-> serializable_records]
                 ELSE f,
        records |-> IF o.kind = "ok" THEN recs ELSE LoadRecords(f)]

SaveRecordsLastOnly(recs, f, o) ==
    LET serializable_records == [i \in 1..Len(recs) |-> SerializeRecord(recs[i])]
    IN [ok |-> o.kind = "ok",
        file |-> IF o.kind # "ok" THEN f
                 ELSE IF f.exists /\ Len(f.lines) < Len(recs)
                 THEN [exists |-> TRUE,
                       lines |-> Append(f.lines, serializable_records[Len(recs)])]
                 ELSE [exists |-> TRUE, lines |-> serializable_records],
        records |-> recs]

SaveRecordsMerge(recs, f, o) ==
    LET serializable_records == [i \in 1..Len(recs) |-> SerializeRecord(recs[i])]
        theirs == SelectSeq(f.lines, LAMBDA line :
                      \A i \in DOMAIN serializable_records : serializable_records[i] # line)
    IN [ok |-> o.kind = "ok",
        file |-> IF o.kind = "ok"
                 THEN [exists |-> TRUE, lines |-> theirs \o serializable_records]
                 ELSE f,
        records |-> recs]

\* SaveRecords: the returned bool, the file afterwards, and self.records
\* (which SaveRecords only reads).
SaveRecords(recs, f, o) ==
    LET serializable_records == [i \in 1..Len(recs) |-> SerializeRecord(recs[i])]
        n == EncodablePrefix(serializable_records)
    IN IF o.kind = "open" THEN [ok |-> FALSE, file |-> f, records |-> recs]
       ELSE IF o.kind = "partial" \/ n < Len(recs)
       THEN [ok |-> FALSE,
             file |-> [exists |-> TRUE,
                       lines |-> SubSeq(serializable_records, 1,
                                        IF o.kind = "partial" /\ o.k < n THEN o.k ELSE n)],
             records |-> recs]
       ELSE [ok |-> TRUE,
             file |-> [exists |-> TRUE, lines |-> serializable_records],
             records |-> recs]

-----------------------------------------------------------------------------
(* Return values of the calls *)

\* None, the record at index i of self.records, a bool, an exception, or a
\* list l of records; for a list, b tells whether it is the list object
\* self.records itself.
RetNone == [t |-> "none", i |-> 0, b |-> FALSE, l |-> <<>>]
RetRec(i) == [t |-> "rec", i |-> i, b |-> FALSE, l |-> <<>>]
RetBool(b) == [t |-> "bool", i |-> 0, b |-> b, l |-> <<>>]
RetExc == [t |-> "exc", i |-> 0, b |-> FALSE, l |-> <<>>]
RetList(l, shared) == [t |-> "list", i |-> 0, b |-> shared, l |-> l]

\* The result of a call that did not call SaveRecords.
NoSave(recs, f, r) == [records |-> recs, file |-> f, ret |-> r, saved |-> "none"]

\* The result of a call that ended with SaveRecords and returned r.
Saved(sv, r) ==
    [records |-> sv.records, file |-> sv.file, ret |-> r,
     saved |-> IF sv.ok THEN "ok" ELSE "fail"]

-----------------------------------------------------------------------------
(* The operations of RecordManager *)

Max(S) == CHOOSE m \in S : \A x \in S : x <= m

\* Whether GenerateId ends by a TypeError: max() over the IDs of the kind, or
\* max_id + 1, raises as soon as one of those IDs is not a number (text that
\* int() did not take at load, or null).
GenerateIdRaises(recs, record_type) ==
    \E i \in DOMAIN recs :
        /\ Get(recs[i], "Type") = StrV(record_type)
        /\ "ID" \in DOMAIN recs[i]
        /\ recs[i]["ID"].t # "int"

GenerateIdCount(recs, record_type) ==
    Cardinality({i \in DOMAIN recs : Get(recs[i], "Type") = StrV(record_type)}) + 1

GenerateIdAnyType(recs, record_type) ==
    IF recs = <<>> THEN 1
    ELSE Max({0} \cup {recs[i]["ID"].n : i \in {j \in DOMAIN recs : "ID" \in DOMAIN recs[j]}}) + 1

GenerateId(recs, record_type) ==
    IF recs = <<>> THEN 1
    ELSE LET same_type_records ==
                 {i \in DOMAIN recs : Get(recs[i], "Type") = StrV(record_type)}
         IN IF same_type_records = {} THEN 1
            ELSE Max({IF "ID" \in DOMAIN recs[i] THEN recs[i]["ID"].n ELSE 0 :
                          i \in same_type_records}) + 1

CreateClient(recs, f, a, o) ==
    LET record == [ID |-> IntV(GenerateId(recs, ClientT)),
                   Type |-> StrV(ClientT),
                   Name |-> a[1],
                   Address_Line_1 |-> a[2],
                   Address_Line_2 |-> a[3],
                   Address_Line_3 |-> a[4],
                   City |-> a[5],
                   State |-> a[6],
                   Zip_Code |-> a[7],
                   Country |-> a[8],
                   Phone_Number |-> a[9]]
        appended == Append(recs, record)
    IN IF GenerateIdRaises(recs, ClientT) THEN NoSave(recs, f, RetExc)
       ELSE Saved(SaveRecords(appended, f, o), RetRec(Len(appended)))

CreateAirlineFirst(recs, f, company_name, o) ==
    LET record == [ID |-> IntV(GenerateId(recs, AirlineT)),
                   Type |-> StrV(AirlineT),
                   Company_Name |-> company_name]
    IN IF GenerateIdRaises(recs, AirlineT) THEN NoSave(recs, f, RetExc)
       ELSE Saved(SaveRecords(<<record>> \o recs, f, o), RetRec(1))

CreateAirline(recs, f, company_name, o) ==
    LET record == [ID |-> IntV(GenerateId(recs, AirlineT)),
                   Type |-> StrV(AirlineT),
                   Company_Name |-> company_name]
        appended == Append(recs, record)
    IN IF GenerateIdRaises(recs, AirlineT) THEN NoSave(recs, f, RetExc)
       ELSE Saved(SaveRecords(appended, f, o), RetRec(Len(appended)))

CreateFlightRejectDuplicate(recs, f, client_id, airline_id, date, start_city, end_city, o) ==
    LET record == [Type |-> StrV(FlightT),
                   Client_ID |-> client_id,
                   Airline_ID |-> airline_id,
                   Date |-> date,
                   Start_City |-> start_city,
                   End_City |-> end_city]
        appended == Append(recs, record)
    IN IF \E i \in DOMAIN recs : /\ Get(recs[i], "Type") = StrV(FlightT)
                                 /\ Get(recs[i], "Client_ID") = client_id
                                 /\ Get(recs[i], "Airline_ID") = airline_id
       THEN NoSave(recs, f, RetNone)
       ELSE Saved(SaveRecords(appended, f, o), RetRec(Len(appended)))

CreateFlight(recs, f, client_id, airline_id, date, start_city, end_city, o) ==
    LET record == [Type |-> StrV(FlightT),
                   Client_ID |-> client_id,
                   Airline_ID |-> airline_id,
                   Date |-> date,
                   Start_City |-> start_city,
                   End_City |-> end_city]
        appended == Append(recs, record)
    IN Saved(SaveRecords(appended, f, o), RetRec(Len(appended)))

\* The indices GetRecordById and DeleteRecord match, in list order.
MatchingId(recs, record_id, record_type) ==
    {i \in DOMAIN recs : /\ Get(recs[i], "ID") = record_id
                         /\ Get(recs[i], "Type") = StrV(record_type)}

Min(S) == CHOOSE m \in S : \A x \in S : m <= x

GetRecordByIdAnyType(recs, record_id, record_type) ==
    LET m == {i \in DOMAIN recs : Get(recs[i], "ID") = record_id}
    IN IF m = {} THEN 0 ELSE Min(m)

\* GetRecordById: the index of the record returned, 0 for None.
GetRecordById(recs, record_id, record_type) ==
    LET m == MatchingId(recs, record_id, record_type)
    IN IF m = {} THEN 0 ELSE Min(m)

\* The truth value Python gives an optional str argument: None and "" are
\* false.
Truthy(v) == v.t = "str" /\ v.s # <<>>

GetAllRecordsShared(recs, record_type) ==
    IF Truthy(record_type)
    THEN RetList(SelectSeq(recs, LAMBDA r : Get(r, "Type") = record_type), FALSE)
    ELSE RetList(recs, TRUE)

\* GetAllRecords: a new list in both branches (a comprehension, a copy).
GetAllRecords(recs, record_type) ==
    IF Truthy(record_type)
    THEN RetList(SelectSeq(recs, LAMBDA r : Get(r, "Type") = record_type), FALSE)
    ELSE RetList(recs, FALSE)

\* The test SearchRecords makes on one value of a record.
ValueMatches(value, search_term) ==
    \/ value.t = "str" /\ Contains(Lower(search_term), Lower(value.s))
    \/ value.t = "int" /\ search_term = Str(value.n)

SearchRecordsIntSubstring(recs, search_term, record_type) ==
    RetList(SelectSeq(recs, LAMBDA record :
                /\ ~(Truthy(record_type) /\ Get(record, "Type") # record_type)
                /\ \E key \in DOMAIN record :
                       \/ ValueMatches(record[key], search_term)
                       \/ /\ record[key].t = "int"
                          /\ Contains(search_term, Str(record[key].n))),
            FALSE)

SearchRecordsDataOnly(recs, search_term, record_type) ==
    RetList(SelectSeq(recs, LAMBDA record :
                /\ ~(Truthy(record_type) /\ Get(record, "Type") # record_type)
                /\ \E key \in DOMAIN record \ {"Type"} :
                       ValueMatches(record[key], search_term)),
            FALSE)

\* SearchRecords: the loop over the values of a record appends the record at
\* the first value that matches and leaves the loop.
SearchRecords(recs, search_term, record_type) ==
    RetList(SelectSeq(recs, LAMBDA record :
                /\ ~(Truthy(record_type) /\ Get(record, "Type") # record_type)
                /\ \E key \in DOMAIN record : ValueMatches(record[key], search_term)),
            FALSE)

ClientAllowed == {"Name", "Address_Line_1", "Address_Line_2", "Address_Line_3",
                  "City", "State", "Zip_Code", "Country", "Phone_Number"}

RECURSIVE ApplyClientFieldsAnyKey(_, _)
ApplyClientFieldsAnyKey(record, fields) ==
    IF fields = <<>> THEN record
    ELSE ApplyClientFieldsAnyKey(Put(record, Head(fields).key, Head(fields).value),
                                 Tail(fields))

\* The loop of UpdateClient over the keyword arguments, in call order.
RECURSIVE ApplyClientFields(_, _)
ApplyClientFields(record, fields) ==
    IF fields = <<>> THEN record
    ELSE ApplyClientFields(
             IF Head(fields).key \in ClientAllowed
             THEN Put(record, Head(fields).key, Head(fields).value)
             ELSE record,
             Tail(fields))

UpdateClientAlwaysSave(recs, f, record_id, fields, o) ==
    LET i == GetRecordById(recs, record_id, ClientT)
        updated == IF i = 0 THEN recs
                   ELSE [recs EXCEPT ![i] = ApplyClientFields(recs[i], fields)]
    IN Saved(SaveRecords(updated, f, o), IF i = 0 THEN RetNone ELSE RetRec(i))

UpdateClientAllFields(recs, f, record_id, fields, o) ==
    LET i == GetRecordById(recs, record_id, ClientT)
    IN IF i = 0 THEN NoSave(recs, f, RetNone)
       ELSE LET applied == ApplyClientFields(recs[i], fields)
                updated == [recs EXCEPT ![i] =
                               [k \in DOMAIN applied |->
                                   IF k \in ClientAllowed /\ fields # <<>>
                                   THEN Head(fields).value ELSE applied[k]]]
            IN Saved(SaveRecords(updated, f, o), RetRec(i))

UpdateClient(recs, f, record_id, fields, o) ==
    LET i == GetRecordById(recs, record_id, ClientT)
    IN IF i = 0 THEN NoSave(recs, f, RetNone)
       ELSE LET updated == [recs EXCEPT ![i] = ApplyClientFields(recs[i], fields)]
            IN Saved(SaveRecords(updated, f, o), RetRec(i))

UpdateAirline(recs, f, record_id, company_name, o) ==
    LET i == GetRecordById(recs, record_id, AirlineT)
    IN IF i = 0 THEN NoSave(recs, f, RetNone)
       ELSE LET updated == [recs EXCEPT ![i] = Put(recs[i], "Company_Name", company_name)]
            IN Saved(SaveRecords(updated, f, o), RetRec(i))

FlightAllowed == {"Client_ID", "Airline_ID", "Date", "Start_City", "End_City"}

\* The loop of UpdateFlight over the keyword arguments, in call order: the
\* record as the loop leaves it, and whether int(value) raised on the way.
RECURSIVE ApplyFlightFields(_, _)
ApplyFlightFields(record, fields) ==
    IF fields = <<>> THEN [record |-> record, raised |-> FALSE]
    ELSE LET key == Head(fields).key
             value == Head(fields).value
         IN IF key \notin FlightAllowed THEN ApplyFlightFields(record, Tail(fields))
            ELSE IF key \in {"Client_ID", "Airline_ID"} THEN
                IF value = NoneV
                THEN ApplyFlightFields(Put(record, key, value), Tail(fields))
                ELSE IF CanInt(value)
                THEN ApplyFlightFields(Put(record, key, IntV(IntOf(value))), Tail(fields))
                ELSE [record |-> record, raised |-> TRUE]
            ELSE ApplyFlightFields(Put(record, key, value), Tail(fields))

\* The indices of the Flight records with the composite key, in list order.
MatchingFlight(recs, client_id, airline_id) ==
    {i \in DOMAIN recs : /\ Get(recs[i], "Type") = StrV(FlightT)
                         /\ Get(recs[i], "Client_ID") = client_id
                         /\ Get(recs[i], "Airline_ID") = airline_id}

UpdateFlightAllMatches(recs, f, old_client_id, old_airline_id, fields, o) ==
    LET m == MatchingFlight(recs, old_client_id, old_airline_id)
    IN IF m = {} THEN NoSave(recs, f, RetNone)
       ELSE LET updated == [j \in DOMAIN recs |->
                               IF j \in m THEN ApplyFlightFields(recs[j], fields).record
                               ELSE recs[j]]
            IN IF ApplyFlightFields(recs[Min(m)], fields).raised
               THEN NoSave(updated, f, RetExc)
               ELSE Saved(SaveRecords(updated, f, o), RetRec(Min(m)))

UpdateFlightKeepKey(recs, f, old_client_id, old_airline_id, fields, o) ==
    LET m == MatchingFlight(recs, old_client_id, old_airline_id)
        plain == SelectSeq(fields, LAMBDA x : x.key \notin {"Client_ID", "Airline_ID"})
    IN IF m = {} THEN NoSave(recs, f, RetNone)
       ELSE LET i == Min(m)
                applied == ApplyFlightFields(recs[i], plain)
                updated == [recs EXCEPT ![i] = applied.record]
            IN IF applied.raised THEN NoSave(updated, f, RetExc)
               ELSE Saved(SaveRecords(updated, f, o), RetRec(i))

UpdateFlight(recs, f, old_client_id, old_airline_id, fields, o) ==
    LET m == MatchingFlight(recs, old_client_id, old_airline_id)
    IN IF m = {} THEN NoSave(recs, f, RetNone)
       ELSE LET i == Min(m)
                applied == ApplyFlightFields(recs[i], fields)
                updated == [recs EXCEPT ![i] = applied.record]
            IN IF applied.raised THEN NoSave(updated, f, RetExc)
               ELSE Saved(SaveRecords(updated, f, o), RetRec(i))

DeleteRecordReportSave(recs, f, record_id, record_type, o) ==
    LET m == MatchingId(recs, record_id, record_type)
    IN IF m = {} THEN NoSave(recs, f, RetBool(FALSE))
       ELSE LET sv == SaveRecords(Pop(recs, Min(m)), f, o)
            IN Saved(sv, RetBool(sv.ok))

DeleteRecordLast(recs, f, record_id, record_type, o) ==
    LET m == MatchingId(recs, record_id, record_type)
    IN IF m = {} THEN NoSave(recs, f, RetBool(FALSE))
       ELSE Saved(SaveRecords(Pop(recs, Len(recs)), f, o), RetBool(TRUE))

DeleteRecordCascade(recs, f, record_id, record_type, o) ==
    LET m == MatchingId(recs, record_id, record_type)
        i == Min(m)
        ref == IF record_type = ClientT THEN "Client_ID" ELSE "Airline_ID"
        popped == SubSeq(recs, 1, i - 1) \o SubSeq(recs, i + 1, Len(recs))
        kept == SelectSeq(popped, LAMBDA r : ~(/\ Get(r, "Type") = StrV(FlightT)
                                               /\ Get(r, ref) = record_id))
    IN IF m = {} THEN NoSave(recs, f, RetBool(FALSE))
       ELSE Saved(SaveRecords(kept, f, o), RetBool(TRUE))

DeleteRecord(recs, f, record_id, record_type, o) ==
    LET m == MatchingId(recs, record_id, record_type)
    IN IF m = {} THEN NoSave(recs, f, RetBool(FALSE))
       ELSE Saved(SaveRecords(Pop(recs, Min(m)), f, o), RetBool(TRUE))

DeleteFlightAllMatches(recs, f, client_id, airline_id, o) ==
    LET m == MatchingFlight(recs, client_id, airline_id)
    IN IF m = {} THEN NoSave(recs, f, RetBool(FALSE))
       ELSE Saved(SaveRecords(SelectSeq(recs, LAMBDA r :
                                  ~(/\ Get(r, "Type") = StrV(FlightT)
                                    /\ Get(r, "Client_ID") = client_id
                                    /\ Get(r, "Airline_ID") = airline_id)), f, o),
                  RetBool(TRUE))

DeleteFlight(recs, f, client_id, airline_id, o) ==
    LET m == MatchingFlight(recs, client_id, airline_id)
    IN IF m = {} THEN NoSave(recs, f, RetBool(FALSE))
       ELSE Saved(SaveRecords(Pop(recs, Min(m)), f, o), RetBool(TRUE))

-----------------------------------------------------------------------------
(* The store as a state machine: one RecordManager on one backing file *)

VARIABLES
    records,      \* self.records
    file,         \* the backing file
    lastOp,       \* the name of the last call
    ret,          \* what the last call returned
    saved,        \* "none": the last call did not call SaveRecords; else its result
    faultsLeft,   \* the number of writes that may still fail
    maxAssigned,  \* history: per kind, the highest ID a Create* has assigned
    args,         \* the arguments of the last call, when it was a query
    otherRecords  \* self.records of a second store open on the same file

vars == <<records, file, lastOp, ret, saved, faultsLeft, maxAssigned, args, otherRecords>>

\* The inputs of the calls.
Ids == {IntV(i) : i \in 1..MaxRecords}
Kinds == {ClientT, AirlineT, FlightT}
Texts == {StrV(TxtA), StrV(TxtB)}
ClientArgs == {[i \in 1..9 |-> StrV(TxtA)]}
KeyIds == {IntV(1), IntV(2)}
NewAirlineIds == {IntV(1)}
Dates == {DtV(1), DtV(2)}
Field(k, v) == [key |-> k, value |-> v]
ClientFields ==
    {<<Field("Name", StrV(TxtB))>>,
     <<Field("Name", StrV(TxtA)), Field("City", StrV(TxtA)),
       Field("ID", IntV(2)), Field("Nickname", StrV(TxtB))>>}
FlightFields ==
    {<<Field("Date", DtV(1)), Field("Start_City", StrV(TxtA)), Field("Seat", StrV(TxtB)),
       Field("Type", StrV(ClientT))>>,
     <<Field("Date", DtV(2)), Field("Client_ID", StrV(<<"2">>))>>,
     <<Field("Date", DtV(1)), Field("Client_ID", StrV(TxtB))>>}

\* A new store on a path where no file exists.
EmptyStore ==
    /\ records = <<>>
    /\ file = AbsentFile
    /\ lastOp = "init"
    /\ ret = RetNone
    /\ saved = "none"
    /\ maxAssigned = [k \in {ClientT, AirlineT} |-> 0]
    /\ args = <<>>
    /\ otherRecords = <<>>

Init == EmptyStore /\ faultsLeft = MaxFailures

\* The runs in which no write fails.
InitSound == EmptyStore /\ faultsLeft = 0

\* The write outcomes a call that writes len records may meet: a write fails
\* only while faultsLeft allows it.
Outcomes(len) ==
    {o \in WriteOutcome(len) : o.kind = "ok" \/ faultsLeft > 0}

\* The call named op ends with result res.
Finish(op, res) ==
    /\ records' = res.records
    /\ file' = res.file
    /\ ret' = res.ret
    /\ saved' = res.saved
    /\ lastOp' = op
    /\ faultsLeft' = IF res.saved = "fail" THEN faultsLeft - 1 ELSE faultsLeft
    /\ args' = <<>>
    /\ otherRecords' = otherRecords

DoCreateClient ==
    /\ Len(records) < MaxRecords
    /\ \E a \in ClientArgs :
         \E o \in Outcomes(Len(records) + 1) :
             Finish("CreateClient",
                    CreateClient(records, file, a, o))

DoCreateAirline ==
    /\ Len(records) < MaxRecords
    /\ \E company_name \in Texts :
         \E o \in Outcomes(Len(records) + 1) :
             Finish("CreateAirline",
                    CreateAirline(records, file, company_name, o))

DoDeleteRecord ==
    \E record_id \in Ids, record_type \in Kinds :
      \E o \in Outcomes(Len(records) - 1) :
             Finish("DeleteRecord",
                    DeleteRecord(records, file, record_id, record_type, o))

CallCreateClient == DoCreateClient /\ UNCHANGED maxAssigned

CallCreateAirline == DoCreateAirline /\ UNCHANGED maxAssigned

CallCreateFlight ==
    /\ Len(records) < MaxRecords
    /\ \E client_id \in KeyIds, airline_id \in NewAirlineIds, date \in Dates :
         \E o \in Outcomes(Len(records) + 1) :
             Finish("CreateFlight",
                    CreateFlight(records, file, client_id, airline_id, date, StrV(TxtA), StrV(TxtA), o))
    /\ UNCHANGED maxAssigned

CallGetRecordById ==
    /\ \E record_id \in Ids, record_type \in Kinds :
         LET i == GetRecordById(records, record_id, record_type)
         IN Finish("GetRecordById",
                   NoSave(records, file, IF i = 0 THEN RetNone ELSE RetRec(i)))
    /\ UNCHANGED maxAssigned

CallUpdateClient ==
    /\ \E record_id \in Ids, fields \in ClientFields :
         \E o \in Outcomes(Len(records)) :
             Finish("UpdateClient",
                    UpdateClient(records, file, record_id, fields, o))
    /\ UNCHANGED maxAssigned

CallUpdateAirline ==
    /\ \E record_id \in Ids, company_name \in Texts :
         \E o \in Outcomes(Len(records)) :
             Finish("UpdateAirline",
                    UpdateAirline(records, file, record_id, company_name, o))
    /\ UNCHANGED maxAssigned

CallUpdateFlight ==
    /\ \E old_client_id \in KeyIds, old_airline_id \in KeyIds, fields \in FlightFields :
         \E o \in Outcomes(Len(records)) :
             Finish("UpdateFlight",
                    UpdateFlight(records, file, old_client_id, old_airline_id, fields, o))
    /\ UNCHANGED maxAssigned

CallDeleteRecord == DoDeleteRecord /\ UNCHANGED maxAssigned

CallDeleteFlight ==
    /\ \E client_id \in KeyIds, airline_id \in KeyIds :
         \E o \in Outcomes(Len(records) - 1) :
             Finish("DeleteFlight",
                    DeleteFlight(records, file, client_id, airline_id, o))
    /\ UNCHANGED maxAssigned

\* RecordManager(file_path) again: a fresh store on the same backing file
\* replaces the running one.
Restart ==
    /\ records' = LoadRecords(file)
    /\ lastOp' = "init"
    /\ ret' = RetNone
    /\ saved' = "none"
    /\ args' = <<>>
    /\ otherRecords' = otherRecords
    /\ UNCHANGED <<file, faultsLeft, maxAssigned>>

Next ==
    \/ CallCreateClient
    \/ CallCreateAirline
    \/ CallCreateFlight
    \/ CallGetRecordById
    \/ CallUpdateClient
    \/ CallUpdateAirline
    \/ CallUpdateFlight
    \/ CallDeleteRecord
    \/ CallDeleteFlight
    \/ Restart

Spec == Init /\ [][Next]_vars

SpecSound == InitSound /\ [][Next]_vars

\* Create* calls only.
NextCreate ==
    \/ CallCreateClient
    \/ CallCreateAirline
    \/ CallCreateFlight

SpecCreate == Init /\ [][NextCreate]_vars

\* CreateClient, CreateAirline and DeleteRecord calls, with the history of the
\* IDs assigned.
TrackCreateClient ==
    /\ DoCreateClient
    /\ maxAssigned' = [maxAssigned EXCEPT
                          ![ClientT] = Max({@, records'[Len(records')]["ID"].n})]

TrackCreateAirline ==
    /\ DoCreateAirline
    /\ maxAssigned' = [maxAssigned EXCEPT
                          ![AirlineT] = Max({@, records'[Len(records')]["ID"].n})]

TrackDeleteRecord == DoDeleteRecord /\ UNCHANGED maxAssigned

NextIds ==
    \/ TrackCreateClient
    \/ TrackCreateAirline
    \/ TrackDeleteRecord

SpecIds == Init /\ [][NextIds]_vars

\* The queries, on stores whose texts have both cases and whose integers have
\* one and two digits.
QueryClientArgs ==
    {[i \in 1..9 |-> IF i = 1 THEN StrV(<<"A", "b">>) ELSE StrV(<<"x">>)],
     [i \in 1..9 |-> IF i = 5 THEN StrV(<<"1", "2">>) ELSE StrV(<<"x">>)]}
QueryNames == {StrV(<<"a", "B">>), StrV(<<"2">>)}
QueryKeys == {<<IntV(12), IntV(2)>>, <<IntV(1), IntV(2)>>}
SearchTerms ==
    {<<>>, <<"1">>, <<"1", "2">>, <<"a">>, <<"A", "B">>, <<"i">>}
QueryKinds == {NoneV, StrV(<<>>), StrV(ClientT), StrV(AirlineT), StrV(FlightT)}

QueryCreateClient ==
    /\ Len(records) < MaxRecords
    /\ \E a \in QueryClientArgs :
         \E o \in Outcomes(Len(records) + 1) :
             Finish("CreateClient", CreateClient(records, file, a, o))
    /\ UNCHANGED maxAssigned

QueryCreateAirline ==
    /\ Len(records) < MaxRecords
    /\ \E company_name \in QueryNames :
         \E o \in Outcomes(Len(records) + 1) :
             Finish("CreateAirline", CreateAirline(records, file, company_name, o))
    /\ UNCHANGED maxAssigned

QueryCreateFlight ==
    /\ Len(records) < MaxRecords
    /\ \E key \in QueryKeys :
         \E o \in Outcomes(Len(records) + 1) :
             Finish("CreateFlight",
                    CreateFlight(records, file, key[1], key[2], DtV(1),
                                 StrV(<<"L", "A">>), StrV(<<"a">>), o))
    /\ UNCHANGED maxAssigned

\* A query called with the arguments a returns r.
Answer(op, a, r) ==
    /\ ret' = r
    /\ lastOp' = op
    /\ args' = a
    /\ otherRecords' = otherRecords
    /\ saved' = "none"
    /\ UNCHANGED <<records, file, faultsLeft, maxAssigned>>

CallGetAllRecords ==
    \E record_type \in QueryKinds :
        Answer("GetAllRecords", <<record_type>>, GetAllRecords(records, record_type))

CallSearchRecords ==
    \E search_term \in SearchTerms, record_type \in QueryKinds :
        Answer("SearchRecords", <<StrV(search_term), record_type>>,
               SearchRecords(records, search_term, record_type))

Reverse(l) == [i \in DOMAIN l |-> l[Len(l) + 1 - i]]

\* What a caller can do to the structure of a list it holds: append an
\* element, remove the first one, reverse the order.
Restructured(l) ==
    {Append(l, [Type |-> StrV(<<"x">>)]), Reverse(l)}
        \cup (IF l = <<>> THEN {} ELSE {Tail(l)})

\* The caller changes the structure of the list GetAllRecords returned; the
\* change shows in self.records when the list is that very object.
MutateReturned ==
    /\ lastOp = "GetAllRecords"
    /\ \E l \in Restructured(ret.l) :
         /\ ret' = RetList(l, ret.b)
         /\ records' = IF ret.b THEN l ELSE records
    /\ lastOp' = "MutateReturned"
    /\ UNCHANGED <<file, saved, faultsLeft, maxAssigned, args, otherRecords>>

NextQuery ==
    \/ QueryCreateClient
    \/ QueryCreateAirline
    \/ QueryCreateFlight
    \/ CallGetAllRecords
    \/ CallSearchRecords
    \/ MutateReturned

SpecQuery == InitSound /\ [][NextQuery]_vars

\* DeleteRecord called with any value Python lets a caller pass as record_id:
\* an int, or None.
AnyIds == Ids \cup {NoneV}

CallDeleteRecordAnyId ==
    /\ \E record_id \in AnyIds, record_type \in Kinds :
         \E o \in Outcomes(Len(records) - 1) :
             Finish("DeleteRecord",
                    DeleteRecord(records, file, record_id, record_type, o))
    /\ UNCHANGED maxAssigned

NextDelete ==
    \/ CallCreateClient
    \/ CallCreateFlight
    \/ CallDeleteRecordAnyId
    \/ CallDeleteFlight

SpecDelete == InitSound /\ [][NextDelete]_vars

\* UpdateFlight called with new values for the key fields, as ints or as
\* numeric text; the call's arguments are kept in args.
RekeyFields ==
    {<<Field("Client_ID", StrV(<<"2">>))>>,
     <<Field("Client_ID", IntV(2)), Field("Airline_ID", IntV(2))>>,
     <<Field("Airline_ID", StrV(<<"1">>)), Field("Client_ID", IntV(1))>>}

CallRekeyFlight ==
    /\ \E old_client_id \in KeyIds, old_airline_id \in KeyIds, fields \in RekeyFields :
         \E o \in Outcomes(Len(records)) :
             LET res == UpdateFlight(records, file, old_client_id, old_airline_id, fields, o)
             IN /\ records' = res.records
                /\ file' = res.file
                /\ ret' = res.ret
                /\ saved' = res.saved
                /\ lastOp' = "UpdateFlight"
                /\ faultsLeft' = IF res.saved = "fail" THEN faultsLeft - 1 ELSE faultsLeft
                /\ args' = <<old_client_id, old_airline_id, fields>>
                /\ otherRecords' = otherRecords
    /\ UNCHANGED maxAssigned

NextRekey ==
    \/ CallCreateFlight
    \/ CallRekeyFlight
    \/ CallDeleteFlight

SpecRekey == InitSound /\ [][NextRekey]_vars

\* A caller that holds a record a call returned and assigns to one of its
\* fields.  Create*, GetRecordById and Update* return the dict that is in
\* self.records, and the lists of GetAllRecords and SearchRecords hold those
\* dicts, so the assignment is to the store's own record.
HeldKinds == {NoneV, StrV(FlightT)}
HeldTerms == {TxtA}
ChangedText == StrV(<<"c">>)

HeldGetAllRecords ==
    \E record_type \in HeldKinds :
        Answer("GetAllRecords", <<record_type>>, GetAllRecords(records, record_type))

HeldSearchRecords ==
    \E search_term \in HeldTerms, record_type \in HeldKinds :
        Answer("SearchRecords", <<StrV(search_term), record_type>>,
               SearchRecords(records, search_term, record_type))

\* The positions in self.records of the dicts in the list the last query
\* returned, in list order.
HeldPositions ==
    IF lastOp = "GetAllRecords"
    THEN {j \in DOMAIN records :
             Truthy(args[1]) => Get(records[j], "Type") = args[1]}
    ELSE IF lastOp = "SearchRecords"
    THEN {j \in DOMAIN records :
             /\ ~(Truthy(args[2]) /\ Get(records[j], "Type") # args[2])
             /\ \E key \in DOMAIN records[j] : ValueMatches(records[j][key], args[1].s)}
    ELSE {}

\* The positions of the records the caller holds after the last call.
Held ==
    IF ret.t = "rec" THEN {ret.i}
    ELSE IF ret.t = "list" THEN HeldPositions
    ELSE {}

\* The field the caller assigns to.
HeldField(record) ==
    IF Get(record, "Type") = StrV(ClientT) THEN "Name"
    ELSE IF Get(record, "Type") = StrV(AirlineT) THEN "Company_Name"
    ELSE "Start_City"

InPlaceOnCopy(recs, j, key, value) == recs

\* record[key] = value on the dict at position j of self.records.
InPlace(recs, j, key, value) == [recs EXCEPT ![j] = Put(recs[j], key, value)]

ChangeInPlace ==
    /\ lastOp # "ChangeInPlace"
    /\ \E j \in Held :
         /\ records' = InPlace(records, j, HeldField(records[j]), ChangedText)
         /\ ret' = RetRec(j)
    /\ lastOp' = "ChangeInPlace"
    /\ saved' = "none"
    /\ args' = <<>>
    /\ otherRecords' = otherRecords
    /\ UNCHANGED <<file, faultsLeft, maxAssigned>>

NextHeld ==
    \/ CallCreateClient
    \/ CallCreateFlight
    \/ CallGetRecordById
    \/ HeldGetAllRecords
    \/ HeldSearchRecords
    \/ CallUpdateClient
    \/ CallDeleteRecord
    \/ ChangeInPlace

SpecHeld == InitSound /\ [][NextHeld]_vars

\* Two stores open on the same backing file.  The calls act on the store
\* whose list is in records; SwitchInstance makes the other store the one
\* that is called next.  Restart is the acting store loading the file.
SwitchInstance ==
    /\ records' = otherRecords
    /\ otherRecords' = records
    /\ lastOp' = "SwitchInstance"
    /\ ret' = RetNone
    /\ saved' = "none"
    /\ args' = <<>>
    /\ UNCHANGED <<file, faultsLeft, maxAssigned>>

NextShared ==
    \/ CallCreateAirline
    \/ CallDeleteRecord
    \/ Restart
    \/ SwitchInstance

SpecShared == InitSound /\ [][NextShared]_vars

\* A store constructed on a file that something else wrote.  The lines are
\* JSON objects as SaveRecords writes them, objects whose IDs or Date are
\* other texts, and lines that make the load raise.
LoadableLines ==
    {[ID |-> IntV(1), Type |-> StrV(ClientT), Name |-> StrV(TxtA)],
     [ID |-> StrV(<<"2">>), Type |-> StrV(ClientT), Name |-> StrV(TxtA)],
     [ID |-> StrV(TxtB), Type |-> StrV(AirlineT), Company_Name |-> StrV(TxtA)],
     [Type |-> StrV(FlightT), Client_ID |-> StrV(<<"1">>), Airline_ID |-> StrV(<<"2">>),
      Date |-> StrV(IsoFormat(1)), Start_City |-> StrV(TxtA), End_City |-> StrV(TxtA)],
     [Type |-> StrV(FlightT), Client_ID |-> IntV(1), Airline_ID |-> IntV(1),
      Date |-> StrV(TxtB), Start_City |-> StrV(TxtA), End_City |-> StrV(TxtA)],
     [Type |-> StrV(FlightT), Client_ID |-> StrV(TxtB), Airline_ID |-> IntV(1),
      Date |-> StrV(IsoFormat(2)), Start_City |-> StrV(TxtA), End_City |-> StrV(TxtA)],
     ReadError,
     NotAnObject}

LoadableFiles ==
    {AbsentFile}
        \cup {[exists |-> TRUE, lines |-> l] :
                 l \in UNION {[1..n -> LoadableLines] : n \in 0..MaxLines}}

\* Before the store is constructed.
InitLoad ==
    /\ file \in LoadableFiles
    /\ records = <<>>
    /\ lastOp = "start"
    /\ ret = RetNone
    /\ saved = "none"
    /\ faultsLeft = 0
    /\ maxAssigned = [k \in {ClientT, AirlineT} |-> 0]
    /\ args = <<>>
    /\ otherRecords = <<>>

NextLoad ==
    \/ Restart
    \/ CallGetRecordById
    \/ CallUpdateFlight
    \/ CallDeleteFlight

SpecLoad == InitLoad /\ [][NextLoad]_vars

\* A store constructed on such a file, then used to create records.
LoadedCreateClient == lastOp # "start" /\ CallCreateClient

LoadedCreateAirline == lastOp # "start" /\ CallCreateAirline

NextLoadCreate ==
    \/ Restart
    \/ LoadedCreateClient
    \/ LoadedCreateAirline

SpecLoadCreate == InitLoad /\ [][NextLoadCreate]_vars

-----------------------------------------------------------------------------
(* Properties *)

Creates == {"CreateClient", "CreateAirline", "CreateFlight"}
Updates == {"UpdateClient", "UpdateAirline", "UpdateFlight"}
Deletes == {"DeleteRecord", "DeleteFlight"}
Mutating == Creates \cup Updates \cup Deletes

\* The lines SaveRecords writes for a list of records.
Serialized(recs) == [i \in 1..Len(recs) |-> SerializeRecord(recs[i])]

\* C1: whenever a mutating call has returned and its write succeeded, the
\* backing file holds exactly one line per in-memory record, in the same
\* order, each the serialization of that record, and nothing else.
C1_FileMirrorsRecords ==
    (lastOp \in Mutating /\ saved = "ok") =>
        file = [exists |-> TRUE, lines |-> Serialized(records)]

\* A DeleteRecord has removed a record, others remain, and the write succeeded.
C1_Witness ==
    /\ lastOp = "DeleteRecord"
    /\ ret = RetBool(TRUE)
    /\ saved = "ok"
    /\ records # <<>>

\* The Flight that a lookup by the composite key of records[i] returns in recs
\* (the first match in list order), 0 when there is none.
FlightLookup(recs, key_of) ==
    LET m == MatchingFlight(recs, Get(key_of, "Client_ID"), Get(key_of, "Airline_ID"))
    IN IF m = {} THEN 0 ELSE Min(m)

\* C2 as stated: after a Create* with a successful write, a fresh store on the
\* same file returns a record equal to the created record R in every field,
\* from GetRecordById(R.ID, kind) or from the Flight lookup by R's key.
C2_RoundTripByLookup ==
    (lastOp \in Creates /\ saved = "ok") =>
        LET R == records[ret.i]
            fresh == LoadRecords(file)
            i == IF R["Type"] = StrV(FlightT) THEN FlightLookup(fresh, R)
                 ELSE GetRecordById(fresh, R["ID"], R["Type"].s)
        IN i # 0 /\ fresh[i] = R

\* C2 (amended): after a Create* with a successful write, a fresh store on the
\* same file holds at R's position a record equal to R in every field (a
\* Flight's Date again a datetime); GetRecordById(R.ID, kind) returns it, and
\* the Flight lookup by R's key returns it unless an earlier Flight of the
\* store has the same key, in which case the lookup returns that earlier one.
C2_RoundTrip ==
    (lastOp \in Creates /\ saved = "ok") =>
        LET R == records[ret.i]
            fresh == LoadRecords(file)
        IN /\ Len(fresh) = Len(records)
           /\ fresh[ret.i] = R
           /\ IF R["Type"] = StrV(FlightT)
              THEN /\ fresh[ret.i]["Date"].t = "dt"
                   /\ FlightLookup(fresh, R) = FlightLookup(records, R)
                   /\ FlightLookup(records, R) = ret.i => fresh[FlightLookup(fresh, R)] = R
              ELSE GetRecordById(fresh, R["ID"], R["Type"].s) = ret.i

\* A Flight with a key no earlier Flight has was created and written: its line
\* holds the Date as text.
C2_Witness ==
    /\ lastOp = "CreateFlight"
    /\ saved = "ok"
    /\ FlightLookup(records, records[ret.i]) = ret.i
    /\ records[ret.i]["Date"].t = "dt"
    /\ file.lines[ret.i]["Date"].t = "str"

\* C3: no two Client records have the same ID and no two Airline records have
\* the same ID.
C3_UniqueIds ==
    \A i, j \in DOMAIN records :
        (/\ i # j
         /\ Get(records[i], "Type") = Get(records[j], "Type")
         /\ Get(records[i], "Type") \in {StrV(ClientT), StrV(AirlineT)})
        => Get(records[i], "ID") # Get(records[j], "ID")

\* A Client was created beside another Client.
C3_Witness ==
    /\ lastOp = "CreateClient"
    /\ \E i \in DOMAIN records :
         i # ret.i /\ Get(records[i], "Type") = StrV(ClientT)

\* C4: the next ID of a kind is always one more than the highest ID ever
\* assigned in that kind, so that no ID is assigned twice.
C4_NextIdAboveAssigned ==
    \A k \in {ClientT, AirlineT} : GenerateId(records, k) = maxAssigned[k] + 1

\* The records of one kind, in list order.
OfType(recs, record_type) ==
    SelectSeq(recs, LAMBDA r : Get(r, "Type") = StrV(record_type))

\* C5: after Create* calls only, the i-th created Client has ID i and the j-th
\* created Airline has ID j, however the creations are interleaved.
C5_SequentialIds ==
    \A k \in {ClientT, AirlineT} :
        \A i \in DOMAIN OfType(records, k) : OfType(records, k)[i]["ID"] = IntV(i)

\* A Client or Airline was created after a record of another kind.
C5_Witness ==
    /\ lastOp \in {"CreateClient", "CreateAirline"}
    /\ Len(records) >= 2
    /\ Get(records[1], "Type") # Get(records[Len(records)], "Type")

\* What each mutating call, for each of its inputs, leaves and returns in the
\* current state when its write succeeds.
WhenWritten ==
    {[op |-> "CreateClient", res |-> CreateClient(records, file, a, OkOutcome)] :
        a \in ClientArgs}
    \cup {[op |-> "CreateAirline", res |-> CreateAirline(records, file, n, OkOutcome)] :
        n \in Texts}
    \cup {[op |-> "CreateFlight",
           res |-> CreateFlight(records, file, x[1], x[2], x[3], StrV(TxtA), StrV(TxtA),
                                OkOutcome)] :
        x \in KeyIds \X NewAirlineIds \X Dates}
    \cup {[op |-> "UpdateClient", res |-> UpdateClient(records, file, x[1], x[2], OkOutcome)] :
        x \in Ids \X ClientFields}
    \cup {[op |-> "UpdateAirline", res |-> UpdateAirline(records, file, x[1], x[2], OkOutcome)] :
        x \in Ids \X Texts}
    \cup {[op |-> "UpdateFlight",
           res |-> UpdateFlight(records, file, x[1], x[2], x[3], OkOutcome)] :
        x \in KeyIds \X KeyIds \X FlightFields}
    \cup {[op |-> "DeleteRecord", res |-> DeleteRecord(records, file, x[1], x[2], OkOutcome)] :
        x \in Ids \X Kinds}
    \cup {[op |-> "DeleteFlight", res |-> DeleteFlight(records, file, x[1], x[2], OkOutcome)] :
        x \in KeyIds \X KeyIds}

\* C6: a mutating call whose write fails leaves the in-memory sequence as the
\* same call leaves it when the write succeeds: the mutation is kept, nothing
\* is rolled back.
C6_FailedWriteKeepsMutation ==
    [][saved' = "fail" =>
          \E c \in WhenWritten :
              c.op = lastOp' /\ c.res.saved = "ok" /\ c.res.records = records']_vars

\* A CreateClient's write failed: the new Client is in memory, not in the file.
C6_Witness ==
    /\ lastOp = "CreateClient"
    /\ saved = "fail"
    /\ ret = RetRec(Len(records))
    /\ Len(file.lines) < Len(records)

\* C7 as stated: when the write fails during a mutating call, no exception
\* reaches the caller and the call returns the boolean failure indicator.
C7_FailureReported ==
    (lastOp \in Mutating /\ saved = "fail") => ret = RetBool(FALSE)

\* C7 (amended): when the write fails during a mutating call, no exception
\* reaches the caller, and the call returns what it returns when the write
\* succeeds: the record for Create* and Update*, True for Delete*.
C7_FailureNotReported ==
    (lastOp \in Mutating /\ saved = "fail") =>
        IF lastOp \in Deletes THEN ret = RetBool(TRUE)
        ELSE ret.t = "rec" /\ ret.i \in DOMAIN records

\* A DeleteRecord's write failed and the call returned True.
C7_Witness ==
    /\ lastOp = "DeleteRecord"
    /\ saved = "fail"
    /\ ret = RetBool(TRUE)

\* C8: a call whose key no record has returns None (GetRecordById, Update*)
\* or False (Delete*), raises nothing, leaves the in-memory sequence as it is
\* and does not call SaveRecords.
C8_NotFoundIsAValue ==
    \A o \in Outcomes(Len(records)) :
        /\ \A record_id \in Ids, record_type \in Kinds :
             MatchingId(records, record_id, record_type) = {} =>
                 /\ GetRecordById(records, record_id, record_type) = 0
                 /\ DeleteRecord(records, file, record_id, record_type, o)
                        = NoSave(records, file, RetBool(FALSE))
        /\ \A record_id \in Ids :
             MatchingId(records, record_id, ClientT) = {} =>
                 \A fields \in ClientFields :
                     UpdateClient(records, file, record_id, fields, o)
                         = NoSave(records, file, RetNone)
        /\ \A record_id \in Ids :
             MatchingId(records, record_id, AirlineT) = {} =>
                 \A company_name \in Texts :
                     UpdateAirline(records, file, record_id, company_name, o)
                         = NoSave(records, file, RetNone)
        /\ \A client_id \in KeyIds, airline_id \in KeyIds :
             MatchingFlight(records, client_id, airline_id) = {} =>
                 /\ \A fields \in FlightFields :
                        UpdateFlight(records, file, client_id, airline_id, fields, o)
                            = NoSave(records, file, RetNone)
                 /\ DeleteFlight(records, file, client_id, airline_id, o)
                        = NoSave(records, file, RetBool(FALSE))

\* An UpdateFlight found no Flight while the file was behind the in-memory
\* sequence, and the file stayed behind.
C8_Witness ==
    /\ lastOp = "UpdateFlight"
    /\ ret = RetNone
    /\ saved = "none"
    /\ records # <<>>
    /\ file # [exists |-> TRUE, lines |-> Serialized(records)]

\* C9: after DeleteRecord(id, kind) returns True for a Client or Airline,
\* GetRecordById(id, kind) returns None and DeleteRecord(id, kind) again
\* returns False.
C9_DeleteThenGet ==
    \A record_id \in Ids, record_type \in {ClientT, AirlineT} :
        \A o \in Outcomes(Len(records) - 1) :
            LET res == DeleteRecord(records, file, record_id, record_type, o)
            IN res.ret = RetBool(TRUE) =>
                   /\ GetRecordById(res.records, record_id, record_type) = 0
                   /\ \A o2 \in Outcomes(Len(res.records) - 1) :
                          DeleteRecord(res.records, res.file, record_id, record_type, o2).ret
                              = RetBool(FALSE)

\* A DeleteRecord returned True and left a Client or Airline in the store.
C9_Witness ==
    /\ lastOp = "DeleteRecord"
    /\ ret = RetBool(TRUE)
    /\ \E i \in DOMAIN records : "ID" \in DOMAIN records[i]

\* Whether the keyword arguments name key, and the value they give it.
Named(fields, key) == \E i \in DOMAIN fields : fields[i].key = key
Supplied(fields, key) ==
    fields[Max({i \in DOMAIN fields : fields[i].key = key})].value

\* C10: UpdateClient on an existing Client sets exactly the allow-listed fields
\* named in the call, on that record only; its other fields, its position and
\* every other record are unchanged.  UpdateAirline does so with Company_Name.
C10_UpdateIsolatesFields ==
    \A record_id \in Ids, o \in Outcomes(Len(records)) :
        /\ \A fields \in ClientFields :
             LET i == GetRecordById(records, record_id, ClientT)
                 res == UpdateClient(records, file, record_id, fields, o)
             IN i # 0 =>
                    /\ res.ret = RetRec(i)
                    /\ Len(res.records) = Len(records)
                    /\ \A j \in DOMAIN records : j # i => res.records[j] = records[j]
                    /\ DOMAIN res.records[i] = DOMAIN records[i]
                    /\ \A key \in DOMAIN records[i] :
                           res.records[i][key] =
                               IF key \in ClientAllowed /\ Named(fields, key)
                               THEN Supplied(fields, key)
                               ELSE records[i][key]
        /\ \A company_name \in Texts :
             LET i == GetRecordById(records, record_id, AirlineT)
                 res == UpdateAirline(records, file, record_id, company_name, o)
             IN i # 0 =>
                    /\ res.ret = RetRec(i)
                    /\ Len(res.records) = Len(records)
                    /\ \A j \in DOMAIN records : j # i => res.records[j] = records[j]
                    /\ DOMAIN res.records[i] = DOMAIN records[i]
                    /\ \A key \in DOMAIN records[i] :
                           res.records[i][key] =
                               IF key = "Company_Name" THEN company_name
                               ELSE records[i][key]

\* An UpdateClient changed a Client that stands beside another record: its
\* Name and City now differ.
C10_Witness ==
    /\ lastOp = "UpdateClient"
    /\ ret.t = "rec"
    /\ Len(records) >= 2
    /\ records[ret.i]["Name"] # records[ret.i]["City"]

\* The keyword arguments without the keys outside the allow-list.
Known(fields, allowed) == SelectSeq(fields, LAMBDA fv : fv.key \in allowed)

\* Every record of after has the ID and the Type of the record of before at
\* its position, and the same value, or none, under every key outside allowed.
KeepsOutside(before, after, allowed) ==
    /\ Len(after) = Len(before)
    /\ \A j \in DOMAIN before :
         \A key \in ((DOMAIN before[j] \cup DOMAIN after[j]) \ allowed)
                         \cup {"ID", "Type"} :
             /\ key \in DOMAIN after[j] <=> key \in DOMAIN before[j]
             /\ Get(after[j], key) = Get(before[j], key)

\* C11: a key outside the allow-list passed to UpdateClient or UpdateFlight
\* changes no field and raises no error: the call does what it does without
\* that key.  No Update* call changes the ID of a Client or Airline or the
\* Type of any record.
C11_UnknownKeysIgnored ==
    [](\A o \in Outcomes(Len(records)) :
           /\ \A record_id \in Ids, fields \in ClientFields :
                LET res == UpdateClient(records, file, record_id, fields, o)
                IN /\ Known(fields, ClientAllowed) # fields =>
                          res = UpdateClient(records, file, record_id,
                                             Known(fields, ClientAllowed), o)
                   /\ res.ret # RetExc
                   /\ KeepsOutside(records, res.records, ClientAllowed)
           /\ \A record_id \in Ids, company_name \in Texts :
                KeepsOutside(records,
                             UpdateAirline(records, file, record_id, company_name, o).records,
                             {"Company_Name"})
           /\ \A old_client_id \in KeyIds, old_airline_id \in KeyIds, fields \in FlightFields :
                LET res == UpdateFlight(records, file, old_client_id, old_airline_id, fields, o)
                IN /\ Known(fields, FlightAllowed) # fields =>
                          res = UpdateFlight(records, file, old_client_id, old_airline_id,
                                             Known(fields, FlightAllowed), o)
                   /\ Known(fields, FlightAllowed \ {"Client_ID", "Airline_ID"}) =
                          Known(fields, FlightAllowed) => res.ret # RetExc
                   /\ KeepsOutside(records, res.records, FlightAllowed))

\* An UpdateClient returned the Client with ID 1, which stands beside another
\* record and has no field but those CreateClient gave it.
C11_Witness ==
    /\ lastOp = "UpdateClient"
    /\ ret.t = "rec"
    /\ Len(records) >= 2
    /\ records[ret.i]["ID"] = IntV(1)
    /\ records[ret.i]["Type"] = StrV(ClientT)
    /\ "Nickname" \notin DOMAIN records[ret.i]

\* C12 as stated: no two Flight records of the store have the same composite
\* key (Client_ID, Airline_ID).
C12_UniqueFlightKeys ==
    \A i, j \in DOMAIN records :
        (/\ i # j
         /\ Get(records[i], "Type") = StrV(FlightT)
         /\ Get(records[j], "Type") = StrV(FlightT))
        => \/ Get(records[i], "Client_ID") # Get(records[j], "Client_ID")
           \/ Get(records[i], "Airline_ID") # Get(records[j], "Airline_ID")

\* C12 (amended): the store does not keep the composite key unique.
\* CreateFlight appends the Flight whatever Flights hold its key pair, so the
\* pair then has one more Flight; among the Flights that share a pair,
\* UpdateFlight and DeleteFlight act on the first in list order and leave the
\* later ones as they are.
C12_FirstMatchIsAuthoritative ==
    [](\A client_id \in KeyIds, airline_id \in KeyIds :
           LET m == MatchingFlight(records, client_id, airline_id)
           IN /\ \A date \in Dates, o \in Outcomes(Len(records) + 1) :
                   LET res == CreateFlight(records, file, client_id, airline_id, date,
                                           StrV(TxtA), StrV(TxtA), o)
                   IN /\ res.ret = RetRec(Len(records) + 1)
                      /\ MatchingFlight(res.records, client_id, airline_id)
                             = m \cup {Len(records) + 1}
              /\ m # {} =>
                   /\ \A fields \in FlightFields, o \in Outcomes(Len(records)) :
                          LET res == UpdateFlight(records, file, client_id, airline_id,
                                                  fields, o)
                          IN /\ res.ret \in {RetRec(Min(m)), RetExc}
                             /\ \A j \in DOMAIN records :
                                    j # Min(m) => res.records[j] = records[j]
                   /\ \A o \in Outcomes(Len(records) - 1) :
                          LET res == DeleteFlight(records, file, client_id, airline_id, o)
                          IN /\ res.ret = RetBool(TRUE)
                             /\ res.records = Pop(records, Min(m)))

\* A CreateFlight has added a second Flight with a key pair an earlier Flight
\* of the store has.
C12_Witness ==
    /\ lastOp = "CreateFlight"
    /\ FlightLookup(records, records[ret.i]) # 0
    /\ FlightLookup(records, records[ret.i]) < ret.i

\* Keyword arguments of UpdateFlight that name neither Client_ID nor
\* Airline_ID.
PlainFlightFields ==
    {<<Field("Start_City", StrV(TxtB))>>,
     <<Field("Date", DtV(2)), Field("End_City", StrV(TxtB))>>,
     <<Field("Date", DtV(1)), Field("Start_City", StrV(TxtA)), Field("Seat", StrV(TxtB)),
       Field("Type", StrV(ClientT))>>}

\* C13: UpdateFlight(c, a, fields) without Client_ID and Airline_ID among the
\* fields modifies only the first Flight in list order whose key is (c, a),
\* sets exactly the supplied fields among Date, Start_City and End_City,
\* leaves its Client_ID and Airline_ID equal to c and a and every other record
\* unchanged, and returns the modified record.
C13_UpdateFlightByKey ==
    \A client_id \in KeyIds, airline_id \in KeyIds, fields \in PlainFlightFields :
        \A o \in Outcomes(Len(records)) :
            LET m == MatchingFlight(records, client_id, airline_id)
                res == UpdateFlight(records, file, client_id, airline_id, fields, o)
            IN m # {} =>
                   /\ res.ret = RetRec(Min(m))
                   /\ Len(res.records) = Len(records)
                   /\ \A j \in DOMAIN records :
                          j # Min(m) => res.records[j] = records[j]
                   /\ DOMAIN res.records[Min(m)] = DOMAIN records[Min(m)]
                   /\ \A key \in DOMAIN records[Min(m)] :
                          res.records[Min(m)][key] =
                              IF key \in {"Date", "Start_City", "End_City"}
                                 /\ Named(fields, key)
                              THEN Supplied(fields, key)
                              ELSE records[Min(m)][key]
                   /\ res.records[Min(m)]["Client_ID"] = client_id
                   /\ res.records[Min(m)]["Airline_ID"] = airline_id

\* An UpdateFlight returned the first Flight of a key pair that a later Flight
\* with another Date shares.
C13_Witness ==
    /\ lastOp = "UpdateFlight"
    /\ ret.t = "rec"
    /\ \E j \in DOMAIN records :
         /\ j > ret.i
         /\ FlightLookup(records, records[j]) = ret.i
         /\ records[j]["Date"] # records[ret.i]["Date"]

\* The number of elements of the list l that equal r.
Count(l, r) == Cardinality({j \in DOMAIN l : l[j] = r})

\* C14: DeleteFlight(c, a) on a store with a Flight of key (c, a) returns True
\* and removes exactly one record, the first such Flight in list order; the
\* records before it keep their place and content, the records after it move
\* up by one, a later Flight with the same key among them.  GetAllRecords of
\* kind Flight then has one Flight less: one element equal to the removed
\* record less, and as many equal to any other record as before.
C14_DeleteFlightRemovesFirst ==
    \A client_id \in KeyIds, airline_id \in KeyIds :
        \A o \in Outcomes(Len(records) - 1) :
            LET m == MatchingFlight(records, client_id, airline_id)
                res == DeleteFlight(records, file, client_id, airline_id, o)
                before == GetAllRecords(records, StrV(FlightT)).l
                after == GetAllRecords(res.records, StrV(FlightT)).l
            IN m # {} =>
                   /\ res.ret = RetBool(TRUE)
                   /\ Len(res.records) = Len(records) - 1
                   /\ \A j \in 1..(Min(m) - 1) : res.records[j] = records[j]
                   /\ \A j \in Min(m)..(Len(records) - 1) :
                          res.records[j] = records[j + 1]
                   /\ Len(after) = Len(before) - 1
                   /\ \A j \in DOMAIN records :
                          Count(after, records[j]) =
                              IF records[j] = records[Min(m)]
                              THEN Count(before, records[j]) - 1
                              ELSE Count(before, records[j])

\* A DeleteFlight returned True and left a Flight in the store.
C14_Witness ==
    /\ lastOp = "DeleteFlight"
    /\ ret = RetBool(TRUE)
    /\ \E j \in DOMAIN records : Get(records[j], "Type") = StrV(FlightT)

\* The text s contains term when the case of the letters is ignored.
ContainsIgnoringCase(term, s) ==
    \E i \in 0..(Len(s) - Len(term)) :
        \A p \in 1..Len(term) : LowerChar(s[i + p]) = LowerChar(term[p])

\* The decimal string of the integer n is exactly term.
IsDecimalOf(term, n) ==
    /\ term # <<>>
    /\ \A p \in DOMAIN term : IsDigit(term[p])
    /\ Len(term) = 1 \/ term[1] # "0"
    /\ ParseDigits(term) = n

\* The positions of the records SearchRecords(term, kind) is to return.
Found(recs, term, kind) ==
    {j \in DOMAIN recs :
        /\ Truthy(kind) => Get(recs[j], "Type") = kind
        /\ \E key \in DOMAIN recs[j] :
               \/ recs[j][key].t = "str" /\ ContainsIgnoringCase(term, recs[j][key].s)
               \/ recs[j][key].t = "int" /\ IsDecimalOf(term, recs[j][key].n)}

\* C15: SearchRecords(term, kind) returns, in store order and each at most
\* once, exactly the records that pass the optional kind filter and have a
\* text field containing term, case ignored, or an integer field whose decimal
\* string is term; an integer field does not match by substring.
C15_SearchRecords ==
    \A search_term \in SearchTerms, record_type \in QueryKinds :
        LET res == SearchRecords(records, search_term, record_type)
            found == Found(records, search_term, record_type)
        IN /\ res.t = "list"
           /\ Len(res.l) = Cardinality(found)
           /\ \A j \in found :
                  res.l[Cardinality({k \in found : k <= j})] = records[j]
           /\ search_term = <<"1">> =>
                  \A k \in DOMAIN res.l :
                      Get(res.l[k], "Client_ID") = IntV(12) =>
                          Get(res.l[k], "Airline_ID") = IntV(1)

\* SearchRecords("1") on two records returned one of them and not the Flight
\* whose Client_ID is 12.
C15_Witness ==
    /\ lastOp = "SearchRecords"
    /\ args = <<StrV(<<"1">>), NoneV>>
    /\ Len(records) = 2
    /\ Len(ret.l) = 1
    /\ Get(ret.l[1], "Client_ID") # IntV(12)
    /\ \E j \in DOMAIN records : Get(records[j], "Client_ID") = IntV(12)

\* The positions of the records of a kind; all positions when no kind is given.
OfKind(recs, kind) ==
    {j \in DOMAIN recs : Truthy(kind) => Get(recs[j], "Type") = kind}

\* GetAllRecords(kind) returns exactly the records of the kind, in in-memory
\* order, in a list that is not the store's own.
ListsKind(recs, kind) ==
    LET res == GetAllRecords(recs, kind)
    IN /\ res.t = "list"
       /\ ~res.b
       /\ Len(res.l) = Cardinality(OfKind(recs, kind))
       /\ \A j \in OfKind(recs, kind) :
              res.l[Cardinality({k \in OfKind(recs, kind) : k <= j})] = recs[j]
       /\ ~Truthy(kind) => res.l = recs
       /\ recs = <<>> => res.l = <<>>

\* C16: GetAllRecords(kind) returns exactly the records of that kind in the
\* current in-memory order (all records when no kind is given, the empty list
\* on an empty store), and the list is a copy: when the caller appends to it,
\* removes from it or reorders it, the store's records and what GetAllRecords
\* and SearchRecords return stay as they were.
C16_GetAllRecordsCopies ==
    /\ [](\A kind \in QueryKinds : ListsKind(records, kind))
    /\ [][lastOp' = "MutateReturned" =>
             /\ records' = records
             /\ \A kind \in QueryKinds :
                    /\ GetAllRecords(records', kind) = GetAllRecords(records, kind)
                    /\ \A search_term \in SearchTerms :
                           SearchRecords(records', search_term, kind)
                               = SearchRecords(records, search_term, kind)]_vars

\* The caller has changed the list GetAllRecords() returned for a store of two
\* records, and the list now differs from the store's.
C16_Witness ==
    /\ lastOp = "MutateReturned"
    /\ args = <<NoneV>>
    /\ Len(records) = 2
    /\ ret.l # records

\* The record at position j is the record of kind record_type with ID
\* record_id.
IsThe(recs, j, record_id, record_type) ==
    /\ Get(recs[j], "Type") = StrV(record_type)
    /\ Get(recs[j], "ID") = record_id

\* The call left every record in place and unchanged, but possibly the first
\* record of kind record_type with ID record_id, and returned that one or None.
TouchesOnly(res, record_id, record_type) ==
    /\ Len(res.records) = Len(records)
    /\ \A j \in DOMAIN records :
           res.records[j] # records[j] => IsThe(records, j, record_id, record_type)
    /\ \/ res.ret = RetNone
       \/ /\ res.ret.t = "rec"
          /\ IsThe(records, res.ret.i, record_id, record_type)
          /\ IsThe(res.records, res.ret.i, record_id, record_type)

\* C17: GetRecordById(id, kind) returns the first record whose Type is kind
\* and whose ID is id, never a record of another kind; UpdateClient,
\* UpdateAirline and DeleteRecord on (id, kind) return, modify or remove that
\* record only, so that a Client and an Airline with the same ID stay apart.
C17_KindScopedIdentity ==
    [](\A record_id \in Ids :
           /\ \A record_type \in Kinds :
                LET i == GetRecordById(records, record_id, record_type)
                IN IF i = 0
                   THEN \A j \in DOMAIN records :
                            ~IsThe(records, j, record_id, record_type)
                   ELSE /\ IsThe(records, i, record_id, record_type)
                        /\ \A j \in 1..(i - 1) :
                               ~IsThe(records, j, record_id, record_type)
           /\ \A fields \in ClientFields, o \in Outcomes(Len(records)) :
                TouchesOnly(UpdateClient(records, file, record_id, fields, o),
                            record_id, ClientT)
           /\ \A company_name \in Texts, o \in Outcomes(Len(records)) :
                TouchesOnly(UpdateAirline(records, file, record_id, company_name, o),
                            record_id, AirlineT)
           /\ \A record_type \in Kinds, o \in Outcomes(Len(records) - 1) :
                LET res == DeleteRecord(records, file, record_id, record_type, o)
                IN /\ \A other \in Kinds \ {record_type} :
                          OfType(res.records, other) = OfType(records, other)
                   /\ \A j \in DOMAIN records :
                          ~IsThe(records, j, record_id, record_type) =>
                              Count(res.records, records[j]) = Count(records, records[j]))

\* An UpdateAirline returned an Airline that stands beside a Client with the
\* same ID.
C17_Witness ==
    /\ lastOp = "UpdateAirline"
    /\ ret.t = "rec"
    /\ Get(records[ret.i], "Type") = StrV(AirlineT)
    /\ \E j \in DOMAIN records :
         /\ Get(records[j], "Type") = StrV(ClientT)
         /\ Get(records[j], "ID") = Get(records[ret.i], "ID")

\* The list after is the list before without its element at position i.
Without(before, after, i) ==
    /\ Len(after) = Len(before) - 1
    /\ \A j \in 1..(i - 1) : after[j] = before[j]
    /\ \A j \in i..(Len(before) - 1) : after[j] = before[j + 1]

\* C18: the in-memory order is the creation order of the surviving records.
\* A Create* appends its record at the end and leaves the others in place; an
\* Update* changes at most the record it returns, at its position; a Delete*
\* that returns True takes one record out and closes the gap; any other call
\* leaves the list as it is.  A fresh store loaded from the file has as many
\* records as the running one, of the same kinds in the same order, and
\* exactly its records when the last write wrote them all.
C18_OrderIsCreationOrder ==
    [][/\ lastOp' \in Creates =>
             /\ Len(records') = Len(records) + 1
             /\ SubSeq(records', 1, Len(records)) = records
             /\ ret' = RetRec(Len(records'))
       /\ lastOp' \in Updates =>
             /\ Len(records') = Len(records)
             /\ \A j \in DOMAIN records :
                    records'[j] # records[j] =>
                        /\ ret'.t \in {"rec", "exc"}
                        /\ ret'.t = "rec" => ret'.i = j
                        /\ \A k \in DOMAIN records : k # j => records'[k] = records[k]
       /\ lastOp' \in Deletes =>
             IF ret' = RetBool(TRUE)
             THEN \E i \in DOMAIN records : Without(records, records', i)
             ELSE records' = records
       /\ lastOp' = "GetRecordById" => records' = records
       /\ lastOp' = "init" =>
             /\ Len(records') = Len(records)
             /\ \A j \in DOMAIN records :
                    Get(records'[j], "Type") = Get(records[j], "Type")
             /\ file = [exists |-> TRUE, lines |-> Serialized(records)] =>
                    records' = records]_vars

\* A fresh store has loaded two records of different kinds from the file.
C18_Witness ==
    /\ lastOp = "init"
    /\ Len(records) = 2
    /\ Get(records[1], "Type") # Get(records[2], "Type")
    /\ records = LoadRecords(file)

\* C19: constructing a store does not raise because of the backing file.  A
\* store constructed on an absent file, or on a file with a line that cannot
\* be read or parsed, is empty: the records of the lines before that line are
\* not kept.  On any other file it has one record per line.
C19_LoadNeverRaises ==
    lastOp = "init" =>
        /\ ret = RetNone
        /\ IF ~file.exists \/ \E i \in DOMAIN file.lines : LineRaises(file.lines[i])
           THEN records = <<>>
           ELSE Len(records) = Len(file.lines)

\* A store was constructed on a file whose first line is a well-formed record
\* and whose second line cannot be parsed, and it is empty.
C19_Witness ==
    /\ lastOp = "init"
    /\ file.exists
    /\ Len(file.lines) = 2
    /\ ~LineRaises(file.lines[1])
    /\ file.lines[2] = ReadError
    /\ records = <<>>

\* The ID-like fields LoadRecords coerces in a record of this Type.
KeyFields(type) ==
    IF type = StrV(FlightT) THEN {"Client_ID", "Airline_ID"}
    ELSE IF type \in {StrV(ClientT), StrV(AirlineT)} THEN {"ID"}
    ELSE {}

\* A text of decimal digits.
NumericText(v) ==
    v.t = "str" /\ v.s # <<>> /\ \A p \in DOMAIN v.s : IsDigit(v.s[p])

\* C20: in a store just loaded from a file without a line that fails, record
\* i comes from line i with the same fields.  An ID, Client_ID or Airline_ID
\* that is numeric text in the line is the integer in the record, and
\* GetRecordById, UpdateFlight and DeleteFlight called with the integer key
\* find a record; a non-numeric one is as in the line.  A Flight's Date that
\* is ISO text is a datetime, any other Date is as in the line; every other
\* field is as in the line.
C20_LoadCoercesIds ==
    (/\ lastOp = "init"
     /\ file.exists
     /\ \A i \in DOMAIN file.lines : ~LineRaises(file.lines[i])) =>
        /\ Len(records) = Len(file.lines)
        /\ \A i \in DOMAIN file.lines :
             LET line == file.lines[i]
                 record == records[i]
                 type == Get(line, "Type")
             IN /\ DOMAIN record = DOMAIN line
                /\ \A key \in DOMAIN line :
                       IF key \in KeyFields(type) /\ NumericText(line[key])
                       THEN record[key] = IntV(ParseDigits(line[key].s))
                       ELSE IF /\ type = StrV(FlightT)
                               /\ key = "Date"
                               /\ line[key].t = "str"
                               /\ CanFromIso(line[key].s)
                       THEN record[key].t = "dt"
                       ELSE record[key] = line[key]
                /\ (type \in {StrV(ClientT), StrV(AirlineT)} /\ NumericText(line["ID"])) =>
                       LET found == GetRecordById(records, IntV(ParseDigits(line["ID"].s)),
                                                  type.s)
                       IN found # 0 /\ records[found]["ID"] = record["ID"]
                /\ (/\ type = StrV(FlightT)
                    /\ NumericText(line["Client_ID"])
                    /\ NumericText(line["Airline_ID"])) =>
                       LET c == IntV(ParseDigits(line["Client_ID"].s))
                           a == IntV(ParseDigits(line["Airline_ID"].s))
                       IN /\ i \in MatchingFlight(records, c, a)
                          /\ \A fields \in FlightFields :
                                 UpdateFlight(records, file, c, a, fields, OkOutcome).ret
                                     # RetNone
                          /\ DeleteFlight(records, file, c, a, OkOutcome).ret
                                 = RetBool(TRUE)

\* GetRecordById(2, 'Client') found a Client whose line holds the ID as the
\* text "2", in a store that also kept a record with an ID that is no number.
C20_Witness ==
    /\ lastOp = "GetRecordById"
    /\ ret.t = "rec"
    /\ records[ret.i]["ID"] = IntV(2)
    /\ file.lines[ret.i]["ID"] = StrV(<<"2">>)
    /\ \E j \in DOMAIN records : Get(records[j], "ID") = StrV(TxtB)

\* C21: DeleteRecord cannot delete a Flight: whatever value is passed as the
\* id, DeleteRecord(id, 'Flight') returns False and leaves the list and the
\* file as they were.
C21_DeleteRecordNeverFlight ==
    \A record_id \in AnyIds :
        \A o \in Outcomes(Len(records) - 1) :
            DeleteRecord(records, file, record_id, FlightT, o)
                = NoSave(records, file, RetBool(FALSE))

\* C22: referential integrity is not enforced.  CreateFlight appends and
\* returns a Flight with the key it is given, whether or not a Client or an
\* Airline with that ID exists; DeleteRecord of a Client or an Airline leaves
\* the Flight records as they were, those that reference the deleted ID
\* included.
C22_NoReferentialIntegrity ==
    [](/\ \A client_id \in KeyIds, airline_id \in KeyIds, date \in Dates :
            \A o \in Outcomes(Len(records) + 1) :
                LET res == CreateFlight(records, file, client_id, airline_id, date,
                                        StrV(TxtA), StrV(TxtA), o)
                    n == Len(records) + 1
                IN /\ res.ret = RetRec(n)
                   /\ Len(res.records) = n
                   /\ SubSeq(res.records, 1, n - 1) = records
                   /\ Get(res.records[n], "Type") = StrV(FlightT)
                   /\ Get(res.records[n], "Client_ID") = client_id
                   /\ Get(res.records[n], "Airline_ID") = airline_id
       /\ \A record_id \in Ids, record_type \in {ClientT, AirlineT} :
            \A o \in Outcomes(Len(records) - 1) :
                OfType(DeleteRecord(records, file, record_id, record_type, o).records,
                       FlightT)
                    = OfType(records, FlightT))

\* A Client was deleted and a Flight that references its ID is still there,
\* with no Client of that ID in the store.
C22_Witness ==
    /\ lastOp = "DeleteRecord"
    /\ ret = RetBool(TRUE)
    /\ \E j \in DOMAIN records :
         /\ Get(records[j], "Type") = StrV(FlightT)
         /\ MatchingId(records, Get(records[j], "Client_ID"), ClientT) = {}
         /\ MatchingId(records, Get(records[j], "Airline_ID"), AirlineT) = {}

\* C23: UpdateFlight on an existing key is all-or-nothing.  For a store with
\* a Flight of key (c, a) and any supplied values, a Client_ID that is not
\* numeric included, UpdateFlight(c, a, fields) rewrites the file and returns
\* the updated record; no call ends with the in-memory record changed while
\* the file has not been rewritten.
C23_UpdateFlightAllOrNothing ==
    \A client_id \in KeyIds, airline_id \in KeyIds, fields \in FlightFields :
        \A o \in Outcomes(Len(records)) :
            LET m == MatchingFlight(records, client_id, airline_id)
                res == UpdateFlight(records, file, client_id, airline_id, fields, o)
            IN m # {} =>
                   /\ res.records # records => res.saved # "none"
                   /\ res.saved # "none"
                   /\ res.ret = RetRec(Min(m))

\* The value UpdateFlight stores for a key field: the int of the supplied
\* value, or the value the call was keyed with when the field is not supplied.
NewKey(fields, key, old) ==
    IF Named(fields, key) THEN IntV(IntOf(Supplied(fields, key))) ELSE old

\* C24: UpdateFlight can change a Flight's identity in place.  When exactly
\* one Flight has key (c, a), after UpdateFlight(c, a, Client_ID=c2,
\* Airline_ID=a2) with (c2, a2) other than (c, a) that record is at the same
\* position with key (c2, a2) stored as integers; a following
\* UpdateFlight(c, a, ...) or DeleteFlight(c, a) reports not-found, and
\* UpdateFlight(c2, a2, ...) finds the first Flight in list order that carries
\* (c2, a2).
C24_RekeyInPlace ==
    [][\A c \in KeyIds, a \in KeyIds, fields \in RekeyFields :
          LET m == MatchingFlight(records, c, a)
              c2 == NewKey(fields, "Client_ID", c)
              a2 == NewKey(fields, "Airline_ID", a)
              m2 == MatchingFlight(records', c2, a2)
          IN (/\ lastOp' = "UpdateFlight"
              /\ args' = <<c, a, fields>>
              /\ Cardinality(m) = 1
              /\ <<c2, a2>> # <<c, a>>)
             => /\ ret' = RetRec(Min(m))
                /\ Len(records') = Len(records)
                /\ \A j \in DOMAIN records : j # Min(m) => records'[j] = records[j]
                /\ Get(records'[Min(m)], "Client_ID") = c2
                /\ Get(records'[Min(m)], "Airline_ID") = a2
                /\ c2.t = "int" /\ a2.t = "int"
                /\ Min(m) \in m2
                /\ \A again \in FlightFields \cup RekeyFields :
                       UpdateFlight(records', file', c, a, again, OkOutcome)
                           = NoSave(records', file', RetNone)
                /\ DeleteFlight(records', file', c, a, OkOutcome)
                       = NoSave(records', file', RetBool(FALSE))
                /\ \A plain \in PlainFlightFields :
                       UpdateFlight(records', file', c2, a2, plain, OkOutcome).ret
                           = RetRec(Min(m2))
      ]_vars

\* The only Flight of a key was given the key of an earlier Flight: the old
\* key finds nothing, the new key finds the earlier Flight.
C24_Witness ==
    /\ lastOp = "UpdateFlight"
    /\ Len(args) = 3
    /\ ret.t = "rec"
    /\ MatchingFlight(records, args[1], args[2]) = {}
    /\ FlightLookup(records, records[ret.i]) < ret.i

\* The IDs of the records of a kind.
IdsOfType(recs, record_type) ==
    {Get(recs[i], "ID") : i \in {j \in DOMAIN recs : Get(recs[j], "Type") = StrV(record_type)}}

\* The call appended and returned a record of the kind with an integer ID
\* that no record of the kind had.
CreatedFresh(res, record_type) ==
    /\ res.ret = RetRec(Len(records) + 1)
    /\ Len(res.records) = Len(records) + 1
    /\ Get(res.records[Len(records) + 1], "Type") = StrV(record_type)
    /\ Get(res.records[Len(records) + 1], "ID").t = "int"
    /\ Get(res.records[Len(records) + 1], "ID") \notin IdsOfType(records, record_type)

\* C25: CreateClient and CreateAirline never fail.  In every state of a store,
\* one loaded from a file in which the ID of a Client or an Airline could not
\* be coerced to an integer included, the call returns a new record with an
\* integer ID that differs from the ID of every record of the kind.
C25_CreateNeverFails ==
    lastOp # "start" =>
        /\ \A a \in ClientArgs :
               \A o \in Outcomes(Len(records) + 1) :
                   CreatedFresh(CreateClient(records, file, a, o), ClientT)
        /\ \A company_name \in Texts :
               \A o \in Outcomes(Len(records) + 1) :
                   CreatedFresh(CreateAirline(records, file, company_name, o), AirlineT)

\* C26: records are returned by reference.  When a caller assigns to a field
\* of a record it got from Create*, GetRecordById, GetAllRecords,
\* SearchRecords or Update*, later queries on the store return the changed
\* value and the backing file is not changed at that moment; the next
\* mutating call on any record writes the change to the file, without an
\* Update* call for the changed record.
C26_ReturnedByReference ==
    [][/\ lastOp' = "ChangeInPlace" =>
            LET j == ret'.i
                key == HeldField(records[j])
            IN /\ file' = file
               /\ Len(records') = Len(records)
               /\ \A i \in DOMAIN records : i # j => records'[i] = records[i]
               /\ Get(records'[j], key) = ChangedText
               /\ Get(GetAllRecords(records', NoneV).l[j], key) = ChangedText
               /\ \E k \in DOMAIN SearchRecords(records', <<"c">>, NoneV).l :
                      SearchRecords(records', <<"c">>, NoneV).l[k] = records'[j]
               /\ \A record_id \in Ids, record_type \in Kinds :
                      GetRecordById(records', record_id, record_type) = j =>
                          Get(records'[GetRecordById(records', record_id, record_type)], key)
                              = ChangedText
       /\ (lastOp = "ChangeInPlace" /\ lastOp' \in Mutating /\ saved' # "none") =>
            /\ file'.lines = Serialized(records')
            /\ (lastOp' \in Creates \/ (lastOp' \in Updates /\ ret'.i # ret.i)) =>
                   file'.lines[ret.i] = SerializeRecord(records[ret.i])
            /\ lastOp' \in Deletes =>
                   \E d \in DOMAIN records : file'.lines = Serialized(Pop(records, d))
      ]_vars

\* A Create* wrote to the file a value that only an assignment by a caller
\* produces.
C26_Witness ==
    /\ lastOp \in Creates
    /\ saved = "ok"
    /\ \E p \in DOMAIN file.lines :
         \E key \in {"Name", "Start_City"} : Get(file.lines[p], key) = ChangedText

\* The lines of the file that serialize no record of the list recs.
Foreign(f, recs) ==
    {p \in DOMAIN f.lines : \A j \in DOMAIN recs : SerializeRecord(recs[j]) # f.lines[p]}

\* C27: no mutating call reads the backing file; each rewrites it entirely
\* from its own in-memory list.  With two stores open on the same file, after
\* a mutating call the file is the serialization of the list of the store
\* that wrote, and what the other store had persisted and the writer does
\* not hold is absent from the file.
C27_LastWriterWins ==
    /\ [](/\ \A company_name \in Texts :
                LET here == CreateAirline(records, file, company_name, OkOutcome)
                    apart == CreateAirline(records, AbsentFile, company_name, OkOutcome)
                IN here = apart
          /\ \A record_id \in Ids, record_type \in Kinds :
                LET here == DeleteRecord(records, file, record_id, record_type, OkOutcome)
                    apart == DeleteRecord(records, AbsentFile, record_id, record_type, OkOutcome)
                IN /\ here.records = apart.records
                   /\ here.ret = apart.ret
                   /\ here.saved # "none" => here.file = apart.file)
    /\ [][(lastOp' \in Mutating /\ saved' # "none") =>
              /\ file'.exists
              /\ file'.lines = Serialized(records')
              /\ otherRecords' = otherRecords
              /\ Foreign(file', records') = {}
         ]_vars

\* A store created a record and rewrote the file while the other store holds
\* a record it had persisted: that record is no longer in the file.
C27_Witness ==
    /\ lastOp \in Creates
    /\ saved = "ok"
    /\ \E j \in DOMAIN otherRecords :
         \A p \in DOMAIN file.lines : file.lines[p] # SerializeRecord(otherRecords[j])

\* The file and the in-memory list differ.
Diverged == file # [exists |-> TRUE, lines |-> Serialized(records)]

\* C28: divergence is repaired by the next successful write.  After a write
\* failed the file and the in-memory list may differ; as soon as the write of
\* a later mutating call succeeds, the file is the serialization of the full
\* in-memory list again, the mutations whose own write had failed included.
C28_NextWriteRepairs ==
    [][(Diverged /\ lastOp' \in Mutating /\ saved' = "ok") =>
          /\ file' = [exists |-> TRUE, lines |-> Serialized(records')]
          /\ \E c \in WhenWritten :
                 /\ c.op = lastOp'
                 /\ c.res.records = records'
                 /\ c.res.file = file'
      ]_vars

\* A write had failed, and a later Create* wrote a file that holds every
\* record of the list, the one created included.
C28_Witness ==
    /\ lastOp \in Creates
    /\ saved = "ok"
    /\ faultsLeft < MaxFailures
    /\ Len(records) > 1
    /\ ~Diverged

\* The store was constructed on a file whose load raised.
LoadFailed == lastOp = "init" /\ file.exists /\ ReadAll(file).raised

\* The call wrote a file of one line, the new record, in which no line of
\* the file f is left.
OnlyTheNew(res, f) ==
    /\ res.ret = RetRec(1)
    /\ res.saved = "ok"
    /\ res.file = [exists |-> TRUE, lines |-> <<SerializeRecord(res.records[1])>>]
    /\ \A p \in DOMAIN f.lines : res.file.lines[1] # f.lines[p]

\* C29: a load failure leaves the backing file untouched, but the first
\* mutating call after it overwrites the file with only the in-memory list
\* built since the failed load: none of the previous lines of the file, the
\* well-formed ones included, survives that call.
C29_FailedLoadThenWriteLosesFile ==
    /\ [][lastOp' = "init" => file' = file]_vars
    /\ [][(LoadFailed /\ lastOp' \in Creates) =>
              /\ file' = [exists |-> TRUE, lines |-> Serialized(records')]
              /\ Len(records') = 1
              /\ \A p \in DOMAIN file.lines : file'.lines[1] # file.lines[p]]_vars
    /\ [](LoadFailed =>
            /\ records = <<>>
            /\ \A a \in ClientArgs :
                   \A o \in Outcomes(1) :
                       OnlyTheNew(CreateClient(records, file, a, o), file)
            /\ \A company_name \in Texts :
                   \A o \in Outcomes(1) :
                       OnlyTheNew(CreateAirline(records, file, company_name, o), file)
            /\ \A client_id \in KeyIds, airline_id \in KeyIds, date \in Dates :
                   \A o \in Outcomes(1) :
                       OnlyTheNew(CreateFlight(records, file, client_id, airline_id, date,
                                               StrV(TxtA), StrV(TxtA), o), file))

\* A load failed on a file that also holds a well-formed record, which the
\* store did not load.
C29_Witness ==
    /\ LoadFailed
    /\ records = <<>>
    /\ \E p \in DOMAIN file.lines :
         /\ ~LineRaises(file.lines[p])
         /\ Get(file.lines[p], "Type") = StrV(ClientT)

\* The positions of the records that pass the kind filter and whose kind name
\* contains term, case ignored.
KindNamed(recs, term, kind) ==
    {j \in OfKind(recs, kind) :
        /\ Get(recs[j], "Type").t = "str"
        /\ ContainsIgnoringCase(term, Get(recs[j], "Type").s)}

\* C30: the Type tag takes part in search matching as a text field.
\* SearchRecords(term) returns every record whose kind name contains term,
\* case ignored, whatever its data fields hold; SearchRecords('') returns
\* every record of the store, every record of the kind under a kind filter.
C30_TypeIsSearched ==
    \A search_term \in SearchTerms, record_type \in QueryKinds :
        LET res == SearchRecords(records, search_term, record_type)
        IN /\ \A j \in KindNamed(records, search_term, record_type) :
                  \E k \in DOMAIN res.l : res.l[k] = records[j]
           /\ Cardinality(KindNamed(records, search_term, record_type)) <= Len(res.l)
           /\ search_term = <<>> => res.l = GetAllRecords(records, record_type).l

\* SearchRecords("i") returned the whole store, two records of different
\* kinds none of which has an i in a data field.
C30_Witness ==
    /\ lastOp = "SearchRecords"
    /\ args = <<StrV(<<"i">>), NoneV>>
    /\ Len(records) > 1
    /\ ret.l = records
    /\ Get(records[1], "Type") # Get(records[2], "Type")
    /\ \A j \in DOMAIN records :
           \A key \in DOMAIN records[j] \ {"Type"} :
               ~ValueMatches(records[j][key], <<"i">>)

====
